---- MODULE Spec2Model ----
(***************************************************************************)
(* Model of src/train_utils.py: compute_ggn (per-item Generalized          *)
(* Gauss-Newton matrices), train_epoch (training loop interleaved with     *)
(* GGN passes, running averages and persistence) and test_epoch.           *)
(*                                                                         *)
(* Arrays hold exact rationals <<num, den>> (den > 0, lowest terms), so    *)
(* that "equals the exact mean" is decided by arithmetic, not tolerance.   *)
(* None is the empty sequence <<>> (no array of the program is empty).     *)
(***************************************************************************)
EXTENDS Integers, Sequences, FiniteSets, TLC

VARIABLES
    fn,                 \* which function is being run: "train_epoch" / "test_epoch" / "compute_ggn"
    pc,                 \* position inside that function
    train_dataloader,   \* argument: sequence of training batches
    test_dataloader,    \* argument of test_epoch: sequence of test batches
    dataset_len,        \* len(dataloader.dataset) of the loader being iterated
    ggn_dataloader,     \* argument: sequence of GGN batches
    ggn_batch_sizes,    \* argument: aggregated batch sizes at which samples are saved
    ggn_freq,           \* argument
    n_ggn_iterations,   \* argument
    n_steps,            \* argument, then local: global step counter
    state,              \* TrainState: number of gradient updates applied so far
    batch_idx,          \* batches of the outer loader consumed so far
    loss_epoch,         \* list of per-item loss arrays
    n_correct_epoch,    \* running number of correct predictions
    GGN_iter_counter,   \* GGN passes completed in this epoch
    ggn_step_idx,       \* GGN batches folded in during the current pass
    GGN_counter,        \* per-item GGNs folded into GGN_total
    GGN_total,          \* [D, D] running mean, <<>> = None
    GGN_samples,        \* [N, D, D] running mean, <<>> = None
    ggn_batch,          \* the batch last handed to compute_ggn, <<>> before any call
    GGN,                \* last output of compute_ggn, <<>> before any call
    store,              \* save_results calls so far, in order
    ret,                \* the returned tuple, <<>> while running
    epoch,              \* number of the train_epoch call (1-based)
    call_log,           \* history: one record per compute_ggn / train_step call
    pass_log            \* history: one record per trigger evaluation

vars == <<fn, pc, train_dataloader, test_dataloader, dataset_len, ggn_dataloader,
          ggn_batch_sizes, ggn_freq, n_ggn_iterations, n_steps, state, batch_idx,
          loss_epoch, n_correct_epoch, GGN_iter_counter, ggn_step_idx, GGN_counter,
          GGN_total, GGN_samples, ggn_batch, GGN, store, ret, epoch, call_log, pass_log>>

None == <<>>

----------------------------------------------------------------------------
(* Exact rational arithmetic (stands for the arrays' real-valued entries). *)

Abs(i) == IF i < 0 THEN -i ELSE i

RECURSIVE GCD(_, _)
GCD(a, b) == IF b = 0 THEN a ELSE GCD(b, a % b)

RNorm(n, d) ==
    LET g == GCD(Abs(n), d) IN <<n \div g, d \div g>>

ToR(i) == <<i, 1>>
RAdd(p, q) == RNorm(p[1] * q[2] + q[1] * p[2], p[2] * q[2])
RSub(p, q) == RNorm(p[1] * q[2] - q[1] * p[2], p[2] * q[2])
RDivInt(p, k) == RNorm(p[1], p[2] * k)

RECURSIVE SumSeq(_)
SumSeq(s) == IF s = <<>> THEN 0 ELSE Head(s) + SumSeq(Tail(s))

RECURSIVE RSumSeq(_)
RSumSeq(s) == IF s = <<>> THEN ToR(0) ELSE RAdd(Head(s), RSumSeq(Tail(s)))

RECURSIVE Concat(_)
Concat(ss) == IF ss = <<>> THEN <<>> ELSE Head(ss) \o Concat(Tail(ss))

----------------------------------------------------------------------------
(* compute_ggn                                                             *)

\* Model output dim and parameter dim of the model under differentiation.
C == 2
D == 2

\* Values the entries of a per-item Jacobian / loss Hessian may take.
JVals == {-1, 1}
MaxH == 1
HVals == -MaxH .. MaxH

Jacobians == [1..C -> [1..D -> JVals]]

\* Symmetric positive-semi-definite [C, C] matrices: the Hessian of a convex
\* per-item loss w.r.t. the logits.
IsSymmetric(M, n) == \A a, b \in 1..n : M[a][b] = M[b][a]

RECURSIVE SortedSeq(_)
SortedSeq(S) ==
    IF S = {} THEN <<>>
    ELSE LET m == CHOOSE x \in S : \A y \in S : x <= y
         IN  <<m>> \o SortedSeq(S \ {m})

Without(s, j) == [i \in 1..(Len(s) - 1) |-> IF i < j THEN s[i] ELSE s[i + 1]]

\* Determinant of the submatrix of M on rows `rows` and columns `cols`
\* (Laplace expansion along the first row).
RECURSIVE DetRC(_, _, _)
DetRC(M, rows, cols) ==
    IF rows = <<>> THEN 1
    ELSE SumSeq([j \in 1..Len(cols) |->
            (IF j % 2 = 1 THEN 1 ELSE -1) * M[rows[1]][cols[j]]
            * DetRC(M, Tail(rows), Without(cols, j))])

\* Positive-semi-definite (for a symmetric integer matrix): every principal
\* minor is non-negative.
IsPSD(M, n) ==
    \A S \in SUBSET (1..n) : DetRC(M, SortedSeq(S), SortedSeq(S)) >= 0

Hessians ==
    {H \in [1..C -> [1..C -> HVals]] : IsSymmetric(H, C) /\ IsPSD(H, C)}

\* An item of a GGN batch, as compute_ggn sees it: the Jacobian of the model
\* output w.r.t. the parameters at that item, and the Hessian of the loss
\* w.r.t. the model output at that item.
GGNItemsAll == [J : Jacobians, H : Hessians]

J_model(st, batch) == [n \in 1..Len(batch) |-> batch[n].J]    \* [N, C, D]
H_loss(st, batch) == [n \in 1..Len(batch) |-> batch[n].H]     \* [N, C, C]

\* Mutant: the second Jacobian factor is read with its axes swapped ("nyb").
Einsum_SwappedAxes(J, H) ==
    [n \in 1..Len(J) |->
        [x \in 1..D |->
            [y \in 1..D |->
                SumSeq([a \in 1..C |->
                    SumSeq([b \in 1..C |-> J[n][a][x] * H[n][a][b] * J[n][y][b]])])]]]

\* jnp.einsum("nax,nab,nby->nxy", J_model, H_loss, J_model)
Einsum(J, H) ==
    [n \in 1..Len(J) |->
        [x \in 1..D |->
            [y \in 1..D |->
                SumSeq([a \in 1..C |->
                    SumSeq([b \in 1..C |-> J[n][a][x] * H[n][a][b] * J[n][b][y]])])]]]

compute_ggn(st, batch) ==
    LET J == J_model(st, batch)
        H == H_loss(st, batch)
        G == Einsum(J, H)
    IN  [n \in 1..Len(batch) |-> [x \in 1..D |-> [y \in 1..D |-> ToR(G[n][x][y])]]]

----------------------------------------------------------------------------
(* train_step / test_step                                                  *)

\* A training/test item as the step functions see it: its per-item loss
\* under the model and whether argmax(logits) equals its label.
TrainItems ==
    {[loss |-> 0, correct |-> TRUE], [loss |-> 1, correct |-> FALSE],
     [loss |-> 3, correct |-> TRUE]}

Count(batch) == SumSeq([i \in 1..Len(batch) |-> IF batch[i].correct THEN 1 ELSE 0])

train_step(st, batch) ==
    [state |-> st + 1,                                         \* apply_gradients
     loss |-> [i \in 1..Len(batch) |-> batch[i].loss],          \* [N]
     n_correct |-> Count(batch)]

test_step(st, batch) ==
    [loss |-> [i \in 1..Len(batch) |-> batch[i].loss],
     n_correct |-> Count(batch)]

----------------------------------------------------------------------------
(* Array operations of the aggregation                                     *)

\* Mutant: the mean of the per-batch means.
MeanConcat_OfBatchMeans(ls) ==
    RDivInt(RSumSeq([b \in 1..Len(ls) |-> RNorm(SumSeq(ls[b]), Len(ls[b]))]), Len(ls))

\* jnp.mean(jnp.concatenate(loss_epoch))
MeanConcat(ls) == LET all == Concat(ls) IN RNorm(SumSeq(all), Len(all))

\* n_correct_epoch / len(dataloader.dataset)
Accuracy(n_correct, n_data) == RNorm(n_correct, n_data)

\* Shapes [n1, D, D] and [n2, D, D] broadcast iff n1 = n2 or one of them is 1.
Broadcastable(n1, n2) == n1 = n2 \/ n1 = 1 \/ n2 = 1
Max(a, b) == IF a >= b THEN a ELSE b
BIdx(T, i) == IF Len(T) = 1 THEN 1 ELSE i

\* Mutant: the difference is divided by the batch's item count, not by the
\* number of batches aggregated.
SamplesUpdate_ByItemCount(samples, G, m) ==
    [i \in 1..Max(Len(samples), Len(G)) |->
        [x \in 1..D |->
            [y \in 1..D |->
                RAdd(samples[BIdx(samples, i)][x][y],
                     RDivInt(RSub(G[BIdx(G, i)][x][y], samples[BIdx(samples, i)][x][y]),
                             Len(G)))]]]

\* GGN_samples + (GGN - GGN_samples) / aggregated_batch_size
SamplesUpdate(samples, G, m) ==
    [i \in 1..Max(Len(samples), Len(G)) |->
        [x \in 1..D |->
            [y \in 1..D |->
                RAdd(samples[BIdx(samples, i)][x][y],
                     RDivInt(RSub(G[BIdx(G, i)][x][y], samples[BIdx(samples, i)][x][y]), m))]]]

\* jnp.mean(GGN, axis=0)
MeanAxis0(G) ==
    [x \in 1..D |-> [y \in 1..D |->
        RDivInt(RSumSeq([i \in 1..Len(G) |-> G[i][x][y]]), Len(G))]]

\* Mutant: the sum of differences is divided by the number of batches-worth of
\* the current batch (its own size), not by the cumulative item count.
TotalUpdate_ByBatchSize(total, G, counter) ==
    [x \in 1..D |-> [y \in 1..D |->
        RAdd(total[x][y],
             RDivInt(RSumSeq([i \in 1..Len(G) |-> RSub(G[i][x][y], total[x][y])]), Len(G)))]]

\* GGN_total + jnp.sum(GGN - GGN_total[None, :, :], axis=0) / GGN_counter
TotalUpdate(total, G, counter) ==
    [x \in 1..D |-> [y \in 1..D |->
        RAdd(total[x][y],
             RDivInt(RSumSeq([i \in 1..Len(G) |-> RSub(G[i][x][y], total[x][y])]), counter))]]

\* save_results(array, n_steps, results_path, batch_size=None)
save_results(st, array, step, batch_size) ==
    Append(st, [array |-> array, n_steps |-> step, batch_size |-> batch_size])

----------------------------------------------------------------------------
(* Inputs                                                                  *)

MaxFreq == 2
MaxGGNIters == 2
MaxStartStep == 1
MaxCheckpoint == 3
MaxTrainBatches == 3
MaxGGNBatches == 2
MaxBatchSize == 2
MaxGGNBatchSize == 3
MaxGGNItems == 6
MaxDropped == 1
MaxEpochs == 2

SeqsUpTo(S, n) == UNION {[1..k -> S] : k \in 1..n}
NumItems(loader) == SumSeq([i \in 1..Len(loader) |-> Len(loader[i])])

\* GGN items of the driver runs: the softmax-like Hessian and two Jacobians.
GGNItems ==
    {it \in GGNItemsAll :
        /\ it.H = <<(<<1, -1>>), (<<-1, 1>>)>>
        /\ it.J[1] = <<1, 1>>
        /\ it.J[2] \in {(<<1, -1>>), (<<-1, 1>>)}}

PlainGGNItem == CHOOSE it \in GGNItems : it.J[2] = <<1, -1>>
PlainTrainItem == [loss |-> 3, correct |-> TRUE]

PlainTrainLoaders == {[i \in 1..k |-> <<PlainTrainItem>>] : k \in 1..MaxTrainBatches}
PlainGGNLoaders == {[i \in 1..k |-> <<PlainGGNItem>>] : k \in 1..MaxGGNBatches}
RichTrainLoaders == SeqsUpTo(SeqsUpTo(TrainItems, MaxBatchSize), 2)
RichGGNLoaders ==
    {l \in SeqsUpTo(SeqsUpTo(GGNItems, MaxGGNBatchSize), 3) : NumItems(l) <= MaxGGNItems}

Locals ==
    /\ batch_idx = 0
    /\ loss_epoch = <<>>
    /\ n_correct_epoch = 0
    /\ GGN_iter_counter = 0
    /\ ggn_step_idx = 0
    /\ GGN_counter = 0
    /\ GGN_total = None
    /\ GGN_samples = None
    /\ ggn_batch = None
    /\ GGN = None
    /\ store = <<>>
    /\ ret = None
    /\ epoch = 1
    /\ call_log = <<>>
    /\ pass_log = <<>>

\* train_epoch, every control argument varying over plain loaders
InitControl ==
    /\ fn = "train_epoch" /\ pc = "loop"
    /\ train_dataloader \in PlainTrainLoaders
    /\ test_dataloader = <<>>
    /\ dataset_len = NumItems(train_dataloader)
    /\ ggn_dataloader \in PlainGGNLoaders
    /\ ggn_batch_sizes \in SUBSET (1..MaxCheckpoint)
    /\ ggn_freq \in 1..MaxFreq
    /\ n_ggn_iterations \in 0..MaxGGNIters
    /\ n_steps \in 0..MaxStartStep
    /\ state = n_steps
    /\ Locals

\* train_epoch on seven batches with ggn_freq = 3 and n_ggn_iterations = 2
InitLongEpoch ==
    /\ fn = "train_epoch" /\ pc = "loop"
    /\ train_dataloader = [i \in 1..7 |-> <<PlainTrainItem>>]
    /\ test_dataloader = <<>>
    /\ dataset_len = NumItems(train_dataloader)
    /\ ggn_dataloader \in PlainGGNLoaders
    /\ ggn_batch_sizes = {1}
    /\ ggn_freq = 3
    /\ n_ggn_iterations = 2
    /\ n_steps = 0
    /\ state = 0
    /\ Locals

\* train_epoch over every training loader
InitTrainData ==
    /\ fn = "train_epoch" /\ pc = "loop"
    /\ train_dataloader \in RichTrainLoaders
    /\ test_dataloader = <<>>
    /\ \E dropped \in 0..MaxDropped : dataset_len = NumItems(train_dataloader) + dropped
    /\ ggn_dataloader = <<(<<PlainGGNItem>>)>>
    /\ ggn_batch_sizes = {1}
    /\ ggn_freq = 2
    /\ n_ggn_iterations = 1
    /\ n_steps = 0
    /\ state = 0
    /\ Locals

\* train_epoch over every GGN loader
InitGGNData ==
    /\ fn = "train_epoch" /\ pc = "loop"
    /\ train_dataloader = <<(<<PlainTrainItem>>)>>
    /\ test_dataloader = <<>>
    /\ dataset_len = 1
    /\ ggn_dataloader \in RichGGNLoaders
    /\ ggn_batch_sizes = {1, 3}
    /\ ggn_freq = 1
    /\ n_ggn_iterations = 1
    /\ n_steps = 0
    /\ state = 0
    /\ Locals

\* test_epoch over every test loader
InitTest ==
    /\ fn = "test_epoch" /\ pc = "loop"
    /\ train_dataloader = <<>>
    /\ test_dataloader \in RichTrainLoaders
    /\ \E dropped \in 0..MaxDropped : dataset_len = NumItems(test_dataloader) + dropped
    /\ ggn_dataloader = <<>>
    /\ ggn_batch_sizes = {}
    /\ ggn_freq = 1
    /\ n_ggn_iterations = 0
    /\ n_steps = 0
    /\ state = 0
    /\ Locals

Init == InitControl \/ InitLongEpoch \/ InitTrainData \/ InitGGNData \/ InitTest

----------------------------------------------------------------------------
(* train_epoch                                                             *)

args == <<fn, train_dataloader, test_dataloader, dataset_len, ggn_dataloader,
          ggn_batch_sizes, ggn_freq>>
ggn_locals == <<ggn_step_idx, GGN_counter, GGN_total, GGN_samples, ggn_batch, GGN>>
stats == <<loss_epoch, n_correct_epoch>>

\* Mutant: the limit on the number of passes is not tested.
Trigger_NoLimit == n_steps % ggn_freq = 0

\* if GGN_iter_counter < n_ggn_iterations and n_steps % ggn_freq == 0
Trigger == GGN_iter_counter < n_ggn_iterations /\ n_steps % ggn_freq = 0

\* for batch in train_dataloader: the next batch is taken and the condition of
\* the GGN pass is evaluated; a pass begins with its running statistics reset.
CheckTrigger ==
    /\ fn = "train_epoch" /\ pc = "loop"
    /\ batch_idx < Len(train_dataloader)
    /\ pass_log' = Append(pass_log,
            [epoch |-> epoch, batch_idx |-> batch_idx, n_steps |-> n_steps,
             completed |-> GGN_iter_counter, limit |-> n_ggn_iterations,
             started |-> Trigger])
    /\ IF Trigger
       THEN /\ pc' = "ggn"
            /\ ggn_step_idx' = 0
            /\ GGN_counter' = 0
            /\ GGN_total' = None
            /\ GGN_samples' = None
            /\ UNCHANGED <<ggn_batch, GGN>>
       ELSE /\ pc' = "step"
            /\ UNCHANGED ggn_locals
    /\ UNCHANGED <<args, n_ggn_iterations, n_steps, state, batch_idx, stats,
                   GGN_iter_counter, store, ret, epoch, call_log>>

\* aggregated_batch_size = ggn_step_idx + 1
AggregatedBatchSize_ZeroBased(idx) == idx
AggregatedBatchSize(idx) == idx + 1

\* The loop over ggn_dataloader ends when the loader is exhausted.
PassDone_AfterFirstBatch == ggn_step_idx >= 1
PassDone == ggn_step_idx = Len(ggn_dataloader)

\* GGN_iter_counter += 1
NextIterCounter_Unchanged(c) == c
NextIterCounter(c) == c + 1

\* n_steps += 1
NextStep_Unchanged(n) == n
NextStep(n) == n + 1

\* n_ggn_iterations - GGN_iter_counter
Remaining_Completed(limit, completed) == completed
Remaining(limit, completed) == limit - completed

LogCall(op) ==
    Append(call_log, [op |-> op, state |-> state, n_steps |-> n_steps,
                      batch_idx |-> batch_idx, epoch |-> epoch])

\* One iteration of the loop over ggn_dataloader.
GGNBatch ==
    /\ fn = "train_epoch" /\ pc = "ggn"
    /\ ~PassDone
    /\ LET b == ggn_dataloader[ggn_step_idx + 1]
           G == compute_ggn(state, b)
           aggregated_batch_size == AggregatedBatchSize(ggn_step_idx)
           samples == IF GGN_samples = None THEN G
                      ELSE SamplesUpdate(GGN_samples, G, aggregated_batch_size)
           counter == GGN_counter + Len(G)
       IN  /\ GGN_samples = None \/ Broadcastable(Len(GGN_samples), Len(G))
           /\ ggn_batch' = b
           /\ GGN' = G
           /\ GGN_samples' = samples
           /\ store' = IF aggregated_batch_size \in ggn_batch_sizes
                       THEN save_results(store, samples, n_steps, <<aggregated_batch_size>>)
                       ELSE store
           /\ GGN_counter' = counter
           /\ GGN_total' = IF GGN_total = None THEN MeanAxis0(G)
                           ELSE TotalUpdate(GGN_total, G, counter)
           /\ ggn_step_idx' = ggn_step_idx + 1
    /\ call_log' = LogCall("compute_ggn")
    /\ UNCHANGED <<args, n_ggn_iterations, n_steps, state, batch_idx, stats,
                   GGN_iter_counter, ret, epoch, pc, pass_log>>

\* GGN - GGN_samples with incompatible leading dimensions raises: the run ends.
GGNBatchShapeError ==
    /\ fn = "train_epoch" /\ pc = "ggn"
    /\ ~PassDone
    /\ LET b == ggn_dataloader[ggn_step_idx + 1]
           G == compute_ggn(state, b)
       IN  /\ GGN_samples # None
           /\ ~Broadcastable(Len(GGN_samples), Len(G))
           /\ ggn_batch' = b
           /\ GGN' = G
    /\ pc' = "error"
    /\ call_log' = LogCall("compute_ggn")
    /\ UNCHANGED <<args, n_ggn_iterations, n_steps, state, batch_idx, stats,
                   GGN_iter_counter, ggn_step_idx, GGN_counter, GGN_total,
                   GGN_samples, store, ret, epoch, pass_log>>

\* After the loop over ggn_dataloader: save_results(GGN_total, n_steps, results_path)
\* and GGN_iter_counter += 1.
FinishGGNPass ==
    /\ fn = "train_epoch" /\ pc = "ggn"
    /\ PassDone
    /\ store' = save_results(store, GGN_total, n_steps, None)
    /\ GGN_iter_counter' = NextIterCounter(GGN_iter_counter)
    /\ pc' = "step"
    /\ UNCHANGED <<args, n_ggn_iterations, n_steps, state, batch_idx, stats,
                   ggn_locals, ret, epoch, call_log, pass_log>>

\* state, loss, n_correct = train_step(state, batch) and the running statistics.
TrainStep ==
    /\ fn = "train_epoch" /\ pc = "step"
    /\ LET out == train_step(state, train_dataloader[batch_idx + 1])
       IN  /\ state' = out.state
           /\ loss_epoch' = Append(loss_epoch, out.loss)
           /\ n_correct_epoch' = n_correct_epoch + out.n_correct
    /\ n_steps' = NextStep(n_steps)
    /\ batch_idx' = batch_idx + 1
    /\ pc' = "loop"
    /\ call_log' = LogCall("train_step")
    /\ UNCHANGED <<args, n_ggn_iterations, GGN_iter_counter, ggn_locals, store,
                   ret, epoch, pass_log>>

\* return state, loss, accuracy, n_steps, n_ggn_iterations - GGN_iter_counter
ReturnTrain ==
    /\ fn = "train_epoch" /\ pc = "loop"
    /\ batch_idx = Len(train_dataloader)
    /\ ret' = [state |-> state,
               loss |-> MeanConcat(loss_epoch),
               accuracy |-> Accuracy(n_correct_epoch, dataset_len),
               n_steps |-> n_steps,
               remaining |-> Remaining(n_ggn_iterations, GGN_iter_counter)]
    /\ pc' = "done"
    /\ UNCHANGED <<args, n_ggn_iterations, n_steps, state, batch_idx, stats,
                   GGN_iter_counter, ggn_locals, store, epoch, call_log, pass_log>>

\* train_epoch is entered again with the state, the step counter and the
\* remaining GGN iterations that the previous call returned.
NextEpoch ==
    /\ fn = "train_epoch" /\ pc = "done"
    /\ epoch < MaxEpochs
    /\ epoch' = epoch + 1
    /\ state' = ret.state
    /\ n_steps' = ret.n_steps
    /\ n_ggn_iterations' = ret.remaining
    /\ loss_epoch' = <<>>
    /\ n_correct_epoch' = 0
    /\ GGN_iter_counter' = 0
    /\ batch_idx' = 0
    /\ ret' = None
    /\ pc' = "loop"
    /\ UNCHANGED <<args, ggn_locals, store, call_log, pass_log>>

----------------------------------------------------------------------------
(* test_epoch                                                              *)

TestStep ==
    /\ fn = "test_epoch" /\ pc = "loop"
    /\ batch_idx < Len(test_dataloader)
    /\ LET out == test_step(state, test_dataloader[batch_idx + 1])
       IN  /\ loss_epoch' = Append(loss_epoch, out.loss)
           /\ n_correct_epoch' = n_correct_epoch + out.n_correct
    /\ batch_idx' = batch_idx + 1
    /\ call_log' = LogCall("test_step")
    /\ UNCHANGED <<args, n_ggn_iterations, n_steps, state, GGN_iter_counter,
                   ggn_locals, store, ret, epoch, pc, pass_log>>

ReturnTest ==
    /\ fn = "test_epoch" /\ pc = "loop"
    /\ batch_idx = Len(test_dataloader)
    /\ ret' = [loss |-> MeanConcat(loss_epoch),
               accuracy |-> Accuracy(n_correct_epoch, dataset_len)]
    /\ pc' = "done"
    /\ UNCHANGED <<args, n_ggn_iterations, n_steps, state, batch_idx, stats,
                   GGN_iter_counter, ggn_locals, store, epoch, call_log, pass_log>>

Next ==
    \/ CheckTrigger
    \/ GGNBatch
    \/ GGNBatchShapeError
    \/ FinishGGNPass
    \/ TrainStep
    \/ ReturnTrain
    \/ NextEpoch
    \/ TestStep
    \/ ReturnTest

Spec == Init /\ [][Next]_vars

----------------------------------------------------------------------------
(* compute_ggn called on its own, over every batch of one or two items     *)

ComputeBatches == SeqsUpTo(GGNItemsAll, 2)

InitCompute ==
    /\ fn = "compute_ggn" /\ pc = "call"
    /\ train_dataloader = <<>>
    /\ test_dataloader = <<>>
    /\ dataset_len = 0
    /\ ggn_dataloader = <<>>
    /\ ggn_batch_sizes = {}
    /\ ggn_freq = 1
    /\ n_ggn_iterations = 0
    /\ n_steps = 0
    /\ state = 0
    /\ batch_idx = 0
    /\ loss_epoch = <<>>
    /\ n_correct_epoch = 0
    /\ GGN_iter_counter = 0
    /\ ggn_step_idx = 0
    /\ GGN_counter = 0
    /\ GGN_total = None
    /\ GGN_samples = None
    /\ ggn_batch \in ComputeBatches
    /\ GGN = None
    /\ store = <<>>
    /\ ret = None
    /\ epoch = 1
    /\ call_log = <<>>
    /\ pass_log = <<>>

CallComputeGGN ==
    /\ fn = "compute_ggn" /\ pc = "call"
    /\ GGN' = compute_ggn(state, ggn_batch)
    /\ pc' = "done"
    /\ UNCHANGED <<args, n_ggn_iterations, n_steps, state, batch_idx, stats,
                   GGN_iter_counter, ggn_step_idx, GGN_counter, GGN_total,
                   GGN_samples, ggn_batch, store, ret, epoch, call_log, pass_log>>

NextCompute == CallComputeGGN

SpecCompute == InitCompute /\ [][NextCompute]_vars

----------------------------------------------------------------------------
(* Properties                                                              *)

\* Plain matrix algebra, used to state what compute_ggn must return.
Transpose(M, rows, cols) == [c \in 1..cols |-> [r \in 1..rows |-> M[r][c]]]
MatMul(A, B, n, k, m) ==
    [i \in 1..n |-> [j \in 1..m |-> SumSeq([l \in 1..k |-> A[i][l] * B[l][j]])]]
Sandwich(J, H) == MatMul(MatMul(Transpose(J, C, D), H, D, C, C), J, D, C, D)
Lift(M) == [x \in 1..D |-> [y \in 1..D |-> ToR(M[x][y])]]
Numerators(M) == [x \in 1..D |-> [y \in 1..D |-> M[x][y][1]]]

\* C9: for every item n of the batch, compute_ggn returns
\* GGN[n] = J[n]^T H[n] J[n], which is what it returns for item n alone (no
\* mixing across items), and GGN[n] is symmetric and positive-semi-definite.
C9_SandwichSymmetricPSD ==
    (fn = "compute_ggn" /\ pc = "done") =>
        /\ Len(GGN) = Len(ggn_batch)
        /\ \A n \in 1..Len(ggn_batch) :
            /\ GGN[n] = Lift(Sandwich(ggn_batch[n].J, ggn_batch[n].H))
            /\ GGN[n] = compute_ggn(state, <<ggn_batch[n]>>)[1]
            /\ \A x, y \in 1..D : GGN[n][x][y][2] = 1
            /\ IsSymmetric(Numerators(GGN[n]), D)
            /\ IsPSD(Numerators(GGN[n]), D)

\* Two different items with different, non-zero GGNs in one batch.
C9_Witness ==
    /\ fn = "compute_ggn" /\ pc = "done"
    /\ Len(ggn_batch) = 2
    /\ ggn_batch[1].J # ggn_batch[2].J
    /\ ggn_batch[1].H # ggn_batch[2].H
    /\ GGN[1] # GGN[2]
    /\ GGN[1][1][2] # ToR(0)
    /\ GGN[2][1][1] # ToR(0)

----------------------------------------------------------------------------
(* train_epoch: trigger, order and counters                                *)

Training == fn = "train_epoch"

\* Indices of the logged calls of `op` made for training batch b of epoch ep.
CallsAt(op, ep, b) ==
    {i \in DOMAIN call_log :
        call_log[i].op = op /\ call_log[i].epoch = ep /\ call_log[i].batch_idx = b}

\* Trigger evaluations of epoch ep before evaluation number i that started a pass.
StartedBefore(i) ==
    {j \in 1..(i - 1) : pass_log[j].epoch = pass_log[i].epoch /\ pass_log[j].started}

\* Evaluations of the trigger made for training batch b of epoch ep.
EvalsAt(ep, b) ==
    {i \in DOMAIN pass_log : pass_log[i].epoch = ep /\ pass_log[i].batch_idx = b}

\* C1: for every training batch the trigger is evaluated exactly once, before
\* the batch's train_step; a GGN pass is started for the batch iff the passes
\* completed so far in the epoch are fewer than n_ggn_iterations and n_steps is
\* a multiple of ggn_freq; compute_ggn runs for a batch only if its pass started.
C1_TriggerIff ==
    Training =>
        /\ \A i \in DOMAIN pass_log :
            LET e == pass_log[i] IN
            /\ e.started <=> (Cardinality(StartedBefore(i)) < e.limit
                              /\ e.n_steps % ggn_freq = 0)
            /\ Cardinality(EvalsAt(e.epoch, e.batch_idx)) = 1
            /\ (CallsAt("compute_ggn", e.epoch, e.batch_idx) # {}) => e.started
        /\ \A c \in DOMAIN call_log :
            Cardinality(EvalsAt(call_log[c].epoch, call_log[c].batch_idx)) = 1
        /\ Len(pass_log) = Cardinality({<<pass_log[i].epoch, pass_log[i].batch_idx>> :
                                            i \in DOMAIN pass_log})

\* ggn_freq = 3, n_ggn_iterations = 2, n_steps from 0: passes were started at
\* steps 0 and 3 and none at step 6, where the limit is reached.
C1_Witness ==
    /\ Training /\ ggn_freq = 3 /\ epoch = 1 /\ pc = "done"
    /\ {pass_log[i].n_steps : i \in {j \in DOMAIN pass_log : pass_log[j].started}} = {0, 3}
    /\ \E i \in DOMAIN pass_log :
        pass_log[i].n_steps = 6 /\ ~pass_log[i].started /\ pass_log[i].limit = 2

\* GGN passes completed in epoch ep: the totals persisted for its batches.
PassesOf(ep) ==
    {i \in DOMAIN pass_log : pass_log[i].epoch = ep /\ pass_log[i].started}

\* C2: the fifth return value of train_epoch is n_ggn_iterations minus the
\* number of GGN passes completed in this epoch, and lies in 0..n_ggn_iterations.
C2_Remaining ==
    (Training /\ pc = "done") =>
        /\ ret.remaining = n_ggn_iterations - Cardinality(PassesOf(epoch))
        /\ Cardinality(PassesOf(epoch)) =
             Cardinality({b \in 0..(Len(train_dataloader) - 1) :
                            CallsAt("compute_ggn", epoch, b) # {}})
        /\ Cardinality(PassesOf(epoch)) <= n_ggn_iterations
        /\ ret.remaining \in 0..n_ggn_iterations

\* An epoch returned with one pass done and one still allowed.
C2_Witness ==
    /\ Training /\ pc = "done"
    /\ n_ggn_iterations = 2
    /\ Cardinality(PassesOf(epoch)) = 1
    /\ ret.remaining = 1

\* C3: a triggered GGN pass consumes every batch of ggn_dataloader and persists
\* the total before the triggering batch's train_step; every compute_ggn call
\* of the pass gets the state that this train_step gets, so the pass leaves the
\* state alone; train_step runs exactly once per training batch, pass or not.
C3_PassBeforeStep ==
    Training =>
        /\ \A i \in DOMAIN call_log :
            call_log[i].op = "train_step" =>
                LET ep == call_log[i].epoch
                    b == call_log[i].batch_idx
                    calls == CallsAt("compute_ggn", ep, b)
                    ev == CHOOSE k \in EvalsAt(ep, b) : TRUE
                IN  /\ CallsAt("train_step", ep, b) = {i}
                    /\ \A j \in calls :
                        j < i /\ call_log[j].state = call_log[i].state
                    /\ Cardinality(calls) =
                         (IF pass_log[ev].started THEN Len(ggn_dataloader) ELSE 0)
                    /\ pass_log[ev].started =>
                        \E k \in DOMAIN store :
                            /\ store[k].n_steps = call_log[i].n_steps
                            /\ store[k].batch_size = None
        /\ \A b \in 0..(batch_idx - 1) : CallsAt("train_step", epoch, b) # {}
        /\ (pc = "step" /\ pass_log[Len(pass_log)].started) =>
            /\ ggn_step_idx = Len(ggn_dataloader)
            /\ store # <<>>
            /\ store[Len(store)].batch_size = None
            /\ store[Len(store)].n_steps = n_steps
            /\ store[Len(store)].array = GGN_total
        /\ \A i \in DOMAIN call_log :
            (i > 1 /\ call_log[i].op # "test_step") =>
                call_log[i].state =
                    call_log[i - 1].state
                    + (IF call_log[i - 1].op = "train_step" THEN 1 ELSE 0)

\* A train_step that followed a pass over two GGN batches, and a later one
\* that followed no pass.
C3_Witness ==
    /\ Training
    /\ \E i, j \in DOMAIN call_log :
        /\ i < j
        /\ call_log[i].op = "train_step" /\ call_log[j].op = "train_step"
        /\ Cardinality(CallsAt("compute_ggn", call_log[i].epoch, call_log[i].batch_idx)) = 2
        /\ CallsAt("compute_ggn", call_log[j].epoch, call_log[j].batch_idx) = {}

----------------------------------------------------------------------------
(* train_epoch: the running averages of a GGN pass                         *)

InPass == Training /\ pc \in {"ggn", "error"}

\* The per-item GGN tensors of the first m batches of ggn_dataloader.
TensorOf(k) == compute_ggn(state, ggn_dataloader[k])
ItemsSeen(m) == Concat([k \in 1..m |-> TensorOf(k)])

\* Sum first, divide once: the arithmetic mean of a list of [D, D] matrices.
ExactMean(Ms) ==
    [x \in 1..D |-> [y \in 1..D |->
        RNorm(SumSeq([i \in 1..Len(Ms) |-> Ms[i][x][y][1]]), Len(Ms))]]

\* C4: during a GGN pass, after k >= 1 batches of any sizes have been folded
\* in, GGN_total is the arithmetic mean of all per-item GGN matrices of those
\* batches and GGN_counter is their number.
C4_TotalIsExactMean ==
    (InPass /\ ggn_step_idx >= 1) =>
        /\ GGN_counter = Len(ItemsSeen(ggn_step_idx))
        /\ GGN_total = ExactMean(ItemsSeen(ggn_step_idx))

\* Three batches of sizes 2, 2 and 1 folded in, a total that is no integer
\* matrix and differs from the mean of the three batch means.
C4_Witness ==
    /\ InPass /\ ggn_step_idx = 3
    /\ Len(ggn_dataloader[1]) = 2 /\ Len(ggn_dataloader[2]) = 2 /\ Len(ggn_dataloader[3]) = 1
    /\ GGN_total[1][1][2] = 5
    /\ GGN_total # ExactMean([k \in 1..3 |-> MeanAxis0(TensorOf(k))])

EqualSizes(m) == \A k \in 1..m : Len(ggn_dataloader[k]) = Len(ggn_dataloader[1])

\* The mean over the first m batches of the per-item GGN at batch index i.
PositionMean(i, m) == ExactMean([k \in 1..m |-> TensorOf(k)[i]])

\* C5: during a GGN pass over batches of one size, after m >= 1 batches
\* position i of GGN_samples is the arithmetic mean, over those m batches, of
\* the per-item GGN at batch-relative index i (the raw tensor for m = 1).
C5_SamplesArePositionMeans ==
    (InPass /\ ggn_step_idx >= 1 /\ EqualSizes(ggn_step_idx)) =>
        /\ Len(GGN_samples) = Len(ggn_dataloader[1])
        /\ \A i \in 1..Len(GGN_samples) : GGN_samples[i] = PositionMean(i, ggn_step_idx)
        /\ ggn_step_idx = 1 => GGN_samples = TensorOf(1)

\* Three batches of two items each, with thirds in the samples.
C5_Witness ==
    /\ InPass /\ ggn_step_idx = 3 /\ EqualSizes(3)
    /\ Len(ggn_dataloader[1]) = 2
    /\ GGN_samples[1][1][1][2] = 3
    /\ GGN_samples[1] # GGN_samples[2]

----------------------------------------------------------------------------
(* train_epoch: persistence                                                *)

\* The running samples value after the first m batches of the current pass.
RECURSIVE RunningSamples(_)
RunningSamples(m) ==
    IF m = 1 THEN TensorOf(1)
    ELSE LET prev == RunningSamples(m - 1)
         IN  [i \in 1..Max(Len(prev), Len(TensorOf(m))) |->
                [x \in 1..D |-> [y \in 1..D |->
                    LET p == prev[BIdx(prev, i)][x][y]
                        g == TensorOf(m)[BIdx(TensorOf(m), i)][x][y]
                    IN  RNorm(p[1] * (m - 1) * g[2] + g[1] * p[2], p[2] * g[2] * m)]]]

\* The save_results calls made under step value s, in the order made.
SavedAt(s) == SelectSeq(store, LAMBDA e : e.n_steps = s)

\* The checkpoints reached once the first m batches are folded in.
Reached(m) == SortedSeq({c \in ggn_batch_sizes : 1 <= c /\ c <= m})

\* A pass was started for the training batch now being handled.
PassRunning == Training /\ pc \in {"ggn", "error"}
PassJustDone == Training /\ pc = "step" /\ pass_log[Len(pass_log)].started

\* Two lists of save_results calls agree: tags and steps first, then arrays.
SameEntries(a, b) ==
    /\ Len(a) = Len(b)
    /\ \A k \in 1..Len(a) :
        /\ a[k].batch_size = b[k].batch_size
        /\ a[k].n_steps = b[k].n_steps
        /\ a[k].array = b[k].array

SampleSaves(m) ==
    [k \in 1..Len(Reached(m)) |->
        [array |-> RunningSamples(Reached(m)[k]), n_steps |-> n_steps,
         batch_size |-> <<Reached(m)[k]>>]]

\* C6: in one GGN pass the samples are persisted once for each checkpoint m of
\* ggn_batch_sizes with 1 <= m <= number of batches folded in and for no other
\* m, right after batch m (so in increasing m), with the running samples over
\* the first m batches (their position means when the batches have one size),
\* under the key (n_steps, m).
C6_CheckpointSaves ==
    /\ PassRunning => SameEntries(SavedAt(n_steps), SampleSaves(ggn_step_idx))
    /\ PassJustDone =>
        /\ SavedAt(n_steps) # <<>>
        /\ SameEntries(SubSeq(SavedAt(n_steps), 1, Len(SavedAt(n_steps)) - 1),
                       SampleSaves(Len(ggn_dataloader)))
        /\ \A k \in 1..(Len(SavedAt(n_steps)) - 1) :
            LET m == SavedAt(n_steps)[k].batch_size[1] IN
            /\ m \in ggn_batch_sizes /\ m <= Len(ggn_dataloader)
            /\ EqualSizes(m) =>
                \A i \in 1..Len(ggn_dataloader[1]) :
                    SavedAt(n_steps)[k].array[i] = PositionMean(i, m)

\* A pass over three batches of two items with checkpoints {1, 3}: two saves,
\* tagged 1 and 3, the second unlike the first.
C6_Witness ==
    /\ PassJustDone /\ ggn_batch_sizes = {1, 3}
    /\ Len(ggn_dataloader) = 3 /\ EqualSizes(3) /\ Len(ggn_dataloader[1]) = 2
    /\ Len(SavedAt(n_steps)) = 3
    /\ SavedAt(n_steps)[1].batch_size = <<1>>
    /\ SavedAt(n_steps)[2].batch_size = <<3>>
    /\ SavedAt(n_steps)[2].array # SavedAt(n_steps)[1].array

\* A pass over two batches with a checkpoint beyond them: nothing is saved
\* for it.
C6_WitnessBeyond ==
    /\ PassJustDone /\ ggn_batch_sizes = {2, 3} /\ Len(ggn_dataloader) = 2
    /\ Len(SavedAt(n_steps)) = 2

IsTotal(e) == e.batch_size = None

\* store' is store with the total of the current pass appended.
TotalAppended ==
    /\ Len(store') = Len(store) + 1
    /\ SubSeq(store', 1, Len(store)) = store
    /\ IsTotal(store'[Len(store')])
    /\ store'[Len(store')].n_steps = n_steps
    /\ store'[Len(store')].array = GGN_total

\* On the states: every completed pass left exactly one total, the last entry
\* stored under its step value; an unfinished or untriggered pass left none.
OneTotalPerPass ==
    Training =>
        /\ \A i \in DOMAIN pass_log :
            LET saved == SavedAt(pass_log[i].n_steps)
                done == pass_log[i].epoch < epoch \/ pass_log[i].batch_idx < batch_idx
                        \/ (pass_log[i].batch_idx = batch_idx /\ pc = "step")
            IN  Cardinality({k \in DOMAIN saved : IsTotal(saved[k])})
                  = (IF pass_log[i].started /\ done THEN 1 ELSE 0)
        /\ \A k \in DOMAIN store :
            IsTotal(store[k]) =>
                \A j \in DOMAIN store : store[j].n_steps = store[k].n_steps => j <= k
        /\ PassJustDone =>
            /\ store # <<>>
            /\ IsTotal(store[Len(store)])
            /\ store[Len(store)].n_steps = n_steps
            /\ store[Len(store)].array = GGN_total

\* On the steps: the store only grows, one entry at a time, under the current
\* n_steps; a total is appended only with ggn_dataloader exhausted, tagged with
\* no batch count, and GGN_iter_counter goes up by one in that very step; within
\* one call of train_epoch the counter changes in no other step.
TotalStep ==
    /\ \/ store' = store
       \/ /\ Len(store') = Len(store) + 1
          /\ SubSeq(store', 1, Len(store)) = store
          /\ store'[Len(store')].n_steps = n_steps
    /\ (Len(store') > Len(store) /\ IsTotal(store'[Len(store')])) =>
         /\ TotalAppended
         /\ pc = "ggn" /\ ggn_step_idx = Len(ggn_dataloader)
         /\ GGN_iter_counter' = GGN_iter_counter + 1
         /\ pc' = "step"
    /\ (GGN_iter_counter' # GGN_iter_counter /\ epoch' = epoch) =>
         /\ GGN_iter_counter' = GGN_iter_counter + 1
         /\ TotalAppended

\* C7: for every GGN pass the total is persisted exactly once, only after the
\* whole ggn_dataloader has been consumed, under a key made of n_steps alone,
\* and GGN_iter_counter is incremented by one right after it and nowhere else.
C7_TotalOncePerPass == []OneTotalPerPass /\ [][TotalStep]_vars

\* Two passes completed in one epoch, each with its total stored.
C7_Witness ==
    /\ Training /\ GGN_iter_counter = 2
    /\ Len(ggn_dataloader) = 2
    /\ Cardinality({k \in DOMAIN store : IsTotal(store[k])}) = 2

----------------------------------------------------------------------------
(* Epoch statistics                                                        *)

Loader == IF fn = "test_epoch" THEN test_dataloader ELSE train_dataloader
AllLosses == Concat([b \in 1..Len(Loader) |-> [i \in 1..Len(Loader[b]) |-> Loader[b][i].loss]])
CorrectIn(b) == Cardinality({i \in 1..Len(Loader[b]) : Loader[b][i].correct})
TotalCorrect == SumSeq([b \in 1..Len(Loader) |-> CorrectIn(b)])

\* C8: train_epoch and test_epoch return as loss the mean of the per-item
\* losses of all items processed, whatever the batch sizes, and as accuracy the
\* number of correct predictions divided by len(dataloader.dataset).
C8_EpochStatistics ==
    (fn \in {"train_epoch", "test_epoch"} /\ pc = "done") =>
        /\ ret.loss[1] * Len(AllLosses) = SumSeq(AllLosses) * ret.loss[2]
        /\ ret.accuracy[1] * dataset_len = TotalCorrect * ret.accuracy[2]
        /\ ret.loss[2] > 0 /\ ret.accuracy[2] > 0

\* A batch of two items and a batch of one, where the mean of the batch means
\* is not the mean over the items, and a dataset longer than what was iterated.
C8_WitnessOf(f) ==
    /\ fn = f /\ pc = "done"
    /\ Len(Loader) = 2 /\ Len(Loader[1]) = 2 /\ Len(Loader[2]) = 1
    /\ ret.loss = <<4, 3>>
    /\ MeanConcat_OfBatchMeans(loss_epoch) # ret.loss
    /\ dataset_len = 4 /\ ret.accuracy = <<1, 2>>

C8_Witness == C8_WitnessOf("train_epoch")
C8_WitnessTest == C8_WitnessOf("test_epoch")

----------------------------------------------------------------------------
(* The global step counter and the keys of the persisted results           *)

\* n_steps at the entry of the current call of train_epoch.
EntryStep == n_steps - batch_idx

Key(e) == <<e.n_steps, e.batch_size>>

\* C10: n_steps goes up by one per training batch and is left alone by a GGN
\* pass (the returned n_steps is the initial one plus the number of batches);
\* every compute_ggn call and every persistence of one pass is made under one
\* step value, different passes use different step values, also across calls
\* fed with the returned n_steps, and no two save_results calls share a key.
C10_StepsAndKeys ==
    Training =>
        /\ \A i \in DOMAIN pass_log :
            /\ pass_log[i].epoch = epoch => pass_log[i].n_steps = EntryStep + pass_log[i].batch_idx
            /\ \A j \in DOMAIN pass_log : i < j => pass_log[i].n_steps < pass_log[j].n_steps
        /\ \A i \in DOMAIN call_log :
            \A k \in EvalsAt(call_log[i].epoch, call_log[i].batch_idx) :
                call_log[i].n_steps = pass_log[k].n_steps
        /\ pc = "done" =>
            \A i \in EvalsAt(epoch, 0) :
                ret.n_steps = pass_log[i].n_steps + Len(train_dataloader)
        /\ \A i, j \in DOMAIN store : Key(store[i]) = Key(store[j]) => i = j
        /\ \A k \in DOMAIN store :
            \E i \in DOMAIN pass_log : pass_log[i].started /\ pass_log[i].n_steps = store[k].n_steps

\* Passes in two successive calls, the second under the step the first returned.
C10_Witness ==
    /\ Training /\ epoch = 2 /\ pc = "done"
    /\ \E i, j \in DOMAIN pass_log :
        /\ pass_log[i].epoch = 1 /\ pass_log[i].started
        /\ pass_log[j].epoch = 2 /\ pass_log[j].started
    /\ \E i, j \in DOMAIN store :
        i < j /\ store[i].batch_size = store[j].batch_size /\ store[i].n_steps < store[j].n_steps

====
